---- MODULE Spec2Model ----
(***************************************************************************)
(* CodeFixer (src/code_fixer.py): the remediation pipeline run by          *)
(* CodeFixer.run.  An issue report is turned into a list of CodeChange,    *)
(* the changes are written into the checked-out repository on a fix        *)
(* branch, committed, diffed against main, pushed, and a pull request is   *)
(* requested.                                                              *)
(*                                                                         *)
(* Texts.  A line of source text is a sequence of tokens; the substring    *)
(* test `pat in code` is membership of the token pat.  A str that may hold *)
(* "\n" (CodeChange.new_code) is the sequence of its lines; a file is the  *)
(* sequence of its physical lines, as readlines() returns them.            *)
(* A JSON object is a record; a key the object lacks is a field the record *)
(* lacks.                                                                  *)
(***************************************************************************)
EXTENDS Integers, Sequences, FiniteSets, TLC

VARIABLES issue_data,   \* CodeFixer.issue_data, the parsed issue report
          pc,           \* the call of run() that is pending, or done / failed
          k,            \* position inside apply_code_changes
          suggestions,  \* the list suggest_code_changes returned
          heads,        \* repo.heads, the local branches
          head,         \* the branch that is checked out
          tree,         \* the working tree: path -> lines of the file
          index,        \* the git index: path -> staged lines
          tip,          \* branch -> tree of its last commit
          patch,        \* the patch file written by create_patch
          remote,       \* branches present on origin
          push_result,  \* what origin.push reported
          env,          \* GITHUB_TOKEN / GITHUB_REPO / REPO_PATH as read by getenv
          posts,        \* number of requests.post calls made
          response,     \* what the last requests.post answered
          pr_url,       \* what create_pull_request returned
          printed,      \* what run() printed after the suggestions
          error,        \* the exception that ended run()
          stages,       \* log of the git / publish calls, in call order
          writes,       \* log of the file rewrites, in call order
          rerun         \* whether this is a second run on the same report

vars == <<issue_data, pc, k, suggestions, heads, head, tree, index, tip, patch,
          remote, push_result, env, posts, response, pr_url, printed, error, stages,
          writes, rerun>>

-----------------------------------------------------------------------------
(* Bounds of the input space *)

\* code_analysis holds at most MaxEntries file entries
MaxEntries == 2
\* an issue report flags at most MaxLocs lines in all
MaxLocs == 2
\* flagged line numbers are drawn from 1..MaxLine
MaxLine == 3
\* the numeric literals of the texts given to the rules are drawn from 0..MaxTimeout
MaxTimeout == 6

None == "None"

-----------------------------------------------------------------------------
(* The repository checkout the pipeline runs in, and the issue reports *)

\* the tree of main when the run starts: one tracked file of two lines
RepoFiles == ("a.py" :> << <<"conn = ", "connect()">>, <<"return conn">> >>)

\* context_lines of an entry: line number (as the JSON key) -> text at analysis time
ContextOf(path) ==
  IF path \in DOMAIN RepoFiles
    THEN [key \in {ToString(n) : n \in 1..Len(RepoFiles[path])} |->
            RepoFiles[path][CHOOSE n \in 1..Len(RepoFiles[path]) : ToString(n) = key]]
    ELSE ("1" :> <<"conn = ", "connect()">>)

\* blame_info of an entry: only line 1 carries blame
BlameOf(path) == ("1" :> [author |-> "alice", commit |-> "abc123"])

Entry(path, lines) ==
  [file_path |-> path, error_lines |-> lines,
   context_lines |-> ContextOf(path), blame_info |-> BlameOf(path)]

Without(rec, key) == [f \in DOMAIN rec \ {key} |-> rec[f]]

LineLists(n) == UNION {[1..m -> 1..MaxLine] : m \in 0..n}

EntryLines(e) == IF "error_lines" \in DOMAIN e THEN Len(e.error_lines) ELSE 0

\* entries flagging at most n lines: of the tracked file, of a file that is
\* not in the repository, and entries lacking one key
Entries(n) ==
  {Entry("a.py", ls) : ls \in LineLists(n)}
    \cup (IF n >= 1 THEN {Entry("gone.py", <<1>>)} \cup
            {Without(Entry("a.py", <<1>>), key) :
               key \in {"file_path", "context_lines", "blame_info"}}
          ELSE {})
    \cup {Without(Entry("a.py", <<>>), "error_lines")}

RECURSIVE CodeAnalyses(_, _)
\* code_analysis arrays of at most m entries flagging at most n lines in all
CodeAnalyses(m, n) ==
  IF m = 0 THEN {<<>>}
  ELSE {<<>>} \cup
       UNION {{<<e>> \o rest : rest \in CodeAnalyses(m - 1, n - EntryLines(e))} :
                 e \in Entries(n)}

FullReport(ca) ==
  [error_id |-> "E1",
   error_details |-> [type |-> "ConnectionError"],
   code_analysis |-> ca,
   llm_analysis |-> [suggested_fixes |-> <<"retry the connection">>]]

\* the reports: well-formed ones, and ones lacking one of the fields
IssueReports ==
  UNION {{FullReport(ca),
          Without(FullReport(ca), "error_id"),
          [FullReport(ca) EXCEPT !.error_details = [message |-> "boom"]],
          [FullReport(ca) EXCEPT !.llm_analysis = [root_cause |-> "unknown"]],
          [FullReport(ca) EXCEPT !.llm_analysis = [suggested_fixes |-> <<>>]]} :
            ca \in CodeAnalyses(MaxEntries, MaxLocs)}
    \cup {Without(FullReport(<<>>), "code_analysis")}

-----------------------------------------------------------------------------
(* FixRuleEngine.  A text is the sequence of its tokens; a pattern is a
   token or a sequence of tokens.  A parenthesis that a rule matches or
   splits on is a token of its own or the last character of a call token;
   what a rule returns is the sequence of the lines of the new text. *)

Contains(code, pat) == \E i \in 1..Len(code) : code[i] = pat

\* the index of the first occurrence of the tokens pat in code at or after
\* from, 0 when there is none
Find(code, pat, from) ==
  LET hits == {i \in from..(Len(code) - Len(pat) + 1) :
                 SubSeq(code, i, i + Len(pat) - 1) = pat}
  IN  IF hits = {} THEN 0 ELSE CHOOSE i \in hits : \A h \in hits : i <= h

\* pat in code, for a pattern of several tokens
ContainsText(code, pat) == Find(code, pat, 1) # 0

RECURSIVE Replace(_, _, _)
\* code.replace(pat, repl) within one line
Replace(code, pat, repl) ==
  LET i == Find(code, pat, 1) IN
  IF i = 0 THEN code
  ELSE SubSeq(code, 1, i - 1) \o repl
         \o Replace(SubSeq(code, i + Len(pat), Len(code)), pat, repl)

RECURSIVE SubCall(_, _, _, _)
\* re.sub(call + r'(.*?)\)', before + r'\1' + after, code): every call with a
\* closing parenthesis is rewritten, its arguments kept
SubCall(code, call, before, after) ==
  LET i == Find(code, call, 1)
      j == IF i = 0 THEN 0 ELSE Find(code, <<")">>, i + Len(call))
  IN  IF j = 0 THEN code
      ELSE SubSeq(code, 1, i - 1) \o before \o SubSeq(code, i + Len(call), j - 1)
             \o after \o SubCall(SubSeq(code, j + 1, Len(code)), call, before, after)

\* code.split(pat)[1], given that pat occurs in code
SplitSecond(code, pat) ==
  LET i == Find(code, pat, 1)
      rest == SubSeq(code, i + Len(pat), Len(code))
      j == Find(rest, pat, 1)
  IN  IF j = 0 THEN rest ELSE SubSeq(rest, 1, j - 1)

\* code.split(pat)[0]
SplitFirst(code, pat) ==
  LET i == Find(code, pat, 1) IN IF i = 0 THEN code ELSE SubSeq(code, 1, i - 1)

\* the tokens that end with '(' and what each has before it
CallTokens ==
  ("(" :> <<>>) @@ ("open(" :> <<"open">>) @@ ("exists(" :> <<"exists">>)
    @@ ("get(" :> <<"get">>) @@ ("db.query(" :> <<"db.query">>)
    @@ ("list(" :> <<"list">>) @@ ("dict(" :> <<"dict">>) @@ ("len(" :> <<"len">>)
    @@ ("json.dumps(" :> <<"json.dumps">>) @@ ("pickle.dumps(" :> <<"pickle.dumps">>)

\* the positions of the tokens of code that end with '('
CallPositions(code) == {i \in 1..Len(code) : code[i] \in DOMAIN CallTokens}

\* whether code.split('(') has a second element
HasParen(code) == CallPositions(code) # {}

\* code.split('(')[1], given HasParen(code)
SplitParenSecond(code) ==
  LET i == CHOOSE c \in CallPositions(code) : \A h \in CallPositions(code) : c <= h
      later == {c \in CallPositions(code) : c > i}
      j == CHOOSE c \in later : \A h \in later : c <= h
  IN  IF later = {} THEN SubSeq(code, i + 1, Len(code))
      ELSE SubSeq(code, i + 1, j - 1) \o CallTokens[code[j]]

\* \d+ : the numeric literals the texts carry
IsNumber(tok) == \E n \in 0..MaxTimeout : ToString(n) = tok

\* int(tok)
Int_(tok) == CHOOSE n \in 0..MaxTimeout : ToString(n) = tok

RECURSIVE LeadingDigit(_)
LeadingDigit(n) == IF n < 10 THEN n ELSE LeadingDigit(n \div 10)

RECURSIVE Magnitude(_)
\* the power of ten of the leading digit of n
Magnitude(n) == IF n < 10 THEN 1 ELSE 10 * Magnitude(n \div 10)

\* 'timeout=5' at position i of code: the keyword, then a literal that
\* starts with the digit 5
Timeout5At(code, i) ==
  /\ code[i] = "timeout=" /\ i < Len(code)
  /\ IsNumber(code[i + 1]) /\ LeadingDigit(Int_(code[i + 1])) = 5

\* lines 99-109
_fix_database_error(code, context) ==
  IF \E i \in 1..Len(code) : Timeout5At(code, i)
    THEN <<[i \in 1..Len(code) |->
              IF i > 1 /\ Timeout5At(code, i - 1)
                THEN ToString(Int_(code[i]) + 25 * Magnitude(Int_(code[i])))
                ELSE code[i]]>>
  ELSE IF Contains(code, "db.query(")
    THEN <<SubCall(code, <<"db.query(">>,
                   <<"db.query(", "\"SELECT * FROM users WHERE id = ?\", [">>,
                   <<"]", ")">>)>>
  ELSE IF Contains(code, "connect()")
    THEN <<Replace(code, <<"connect()">>, <<"connect(pool_size=5, max_overflow=10)">>)>>
  ELSE <<code>>

\* lines 111-121
_fix_auth_error(code, context) ==
  IF ContainsText(code, <<"len(", "token", ") < 32">>)
    THEN <<Replace(code, <<"len(", "token", ") < 32">>,
                   <<"not is_valid_token_format(", "token", ")">>)>>
  ELSE IF Contains(code, "Authorization")
    THEN <<Replace(code,
                   <<"token", " = ", "request", ".headers", ".", "get(", "'",
                     "Authorization", "'", ")">>,
                   <<"token", " = ", "request", ".headers", ".", "get(", "'",
                     "Authorization", "'", ", ''", ")", ".replace('Bearer ', '')">>)>>
  ELSE <<code>>

\* lines 123-129: the @retry decorator line, then the code
_fix_connection_error(code, context) ==
  IF Contains(code, "connect()")
    THEN << <<"@retry(max_attempts=3, delay=1)">>, code >>
    ELSE <<code>>

\* the substitution with every literal left as it is
KeepTimeouts(code) == code

\* f'timeout={int(m.group(1)) * 2}' for every match of timeout=(\d+)
DoubleTimeouts(code) ==
  [i \in 1..Len(code) |->
     IF i > 1 /\ code[i - 1] = "timeout=" /\ IsNumber(code[i])
       THEN ToString(Int_(code[i]) * 2) ELSE code[i]]

\* lines 131-136
_fix_timeout_error(code, context) ==
  IF Contains(code, "timeout=") THEN <<DoubleTimeouts(code)>> ELSE <<code>>

\* lines 138-143
_fix_validation_error(code, context) ==
  IF Contains(code, "if not")
    THEN <<Replace(code, <<"if not">>, <<"if not", " is_valid_input(">>)>>
    ELSE <<code>>

\* lines 145-150
_fix_resource_not_found(code, context) ==
  IF Contains(code, "get(")
    THEN <<SubCall(code, <<".", "get(">>, <<".", "get(">>, <<", None", ")">>)>>
    ELSE <<code>>

\* lines 152-157
_fix_permission_error(code, context) ==
  IF Contains(code, "check_permission")
    THEN <<Replace(code, <<"check_permission">>, <<"check_permission", "_with_roles">>)>>
    ELSE <<code>>

\* the rate-limit rule without its test of the text
_fix_rate_limit_always(code, context) ==
  << <<"@rate_limit(max_requests=100, window=60)">>, code >>

\* lines 159-165: the decorator line, then the code
_fix_rate_limit_error(code, context) ==
  IF Contains(code, "request")
    THEN << <<"@rate_limit(max_requests=100, window=60)">>, code >>
    ELSE <<code>>

\* lines 167-178
_fix_memory_error(code, context) ==
  IF Contains(code, "list(")
    THEN <<Replace(code, <<"list(">>, <<"generator(">>)>>
  ELSE IF Contains(code, "dict(")
    THEN <<Replace(code, <<"dict(">>, <<"default", "dict(">>)>>
  ELSE IF Contains(code, "for") /\ Contains(code, "in")
    THEN <<Replace(code, <<"for">>, <<"for", " _ ", "in", " itertools.islice(">>)>>
  ELSE <<code>>

\* lines 180-190
_fix_concurrency_error(code, context) ==
  IF Contains(code, "global")
    THEN << <<"@thread_safe">>, code >>
  ELSE IF Contains(code, "shared_resource")
    THEN << <<"with lock:">>, <<"    ">> \o code >>
  ELSE <<code>>

\* lines 192-200
_fix_configuration_error(code, context) ==
  IF ContainsText(code, <<"config", ".", "get(">>)
    THEN <<SubCall(code, <<"config", ".", "get(">>, <<"config", ".", "get(">>,
                   <<", default_value", ")">>)>>
  ELSE IF ContainsText(code, <<"os.environ", ".", "get(">>)
    THEN <<SubCall(code, <<"os.environ", ".", "get(">>, <<"get_validated_env(">>,
                   <<")">>)>>
  ELSE <<code>>

\* lines 202-210
_fix_security_error(code, context) ==
  IF Contains(code, "password")
    THEN <<Replace(code, <<"password">>, <<"hashed_", "password">>)>>
  ELSE IF Contains(code, "token")
    THEN <<Replace(code, <<"token">>, <<"secure_", "token">>)>>
  ELSE <<code>>

\* lines 212-224
_fix_network_error(code, context) ==
  IF ContainsText(code, <<"request", "s", ".", "get(">>)
    THEN <<SubCall(code, <<"request", "s", ".", "get(">>,
                   <<"request", "s", ".", "get(">>,
                   <<", ", "timeout=", "30", ", retries=3", ")">>)>>
  ELSE IF Contains(code, "socket")
    THEN << <<"try:">>,
            <<"    ">> \o code,
            <<"except ConnectionError as e:">>,
            <<"    logger.error(f\"Connection error: {e}\")">>,
            <<"    raise">> >>
  ELSE <<code>>

\* the exception _fix_filesystem_error raises, or None: element 1 of a split
\* that found nothing to split on (line 235)
_fix_filesystem_error_raises(code) ==
  IF Contains(code, "open(") THEN None
  ELSE IF ~Contains(code, "os.path") THEN None
  ELSE IF ~ContainsText(code, <<"os.path", ".">>) THEN "IndexError"
  ELSE IF ~HasParen(SplitSecond(code, <<"os.path", ".">>)) THEN "IndexError"
  ELSE None

\* lines 226-236, where no exception is raised
_fix_filesystem_error(code, context) ==
  IF Contains(code, "open(")
    THEN << <<"with ", "open(">>
              \o SplitFirst(SplitSecond(code, <<"open(">>), <<")">>)
              \o <<", 'r'", ")", " as f:">>,
            <<"    ", "content = f.read()">> >>
  ELSE IF Contains(code, "os.path")
    THEN << <<"if ", "os.path", ".", "exists(">>
              \o SplitFirst(SplitParenSecond(SplitSecond(code, <<"os.path", ".">>)),
                            <<")">>)
              \o <<")", ":">>,
            <<"    ">> \o code >>
  ELSE <<code>>

\* lines 238-246
_fix_serialization_error(code, context) ==
  IF Contains(code, "json.dumps(")
    THEN <<Replace(code, <<"json.dumps(">>, <<"json.dumps(", ", default=str", ")">>)>>
  ELSE IF Contains(code, "pickle.dumps(")
    THEN <<Replace(code, <<"pickle.dumps(">>, <<"secure_", "pickle.dumps(">>)>>
  ELSE <<code>>

RECURSIVE ReplaceToken(_, _, _)
\* code.replace(pat, repl) where repl is a text of several lines: the lines of the result
ReplaceToken(code, pat, repl) ==
  IF ~Contains(code, pat) THEN <<code>>
  ELSE LET i == CHOOSE j \in 1..Len(code) :
                  code[j] = pat /\ \A h \in 1..(j - 1) : code[h] # pat
           rest == ReplaceToken(SubSeq(code, i + 1, Len(code)), pat, repl)
       IN  <<SubSeq(code, 1, i - 1) \o repl[1]>>
             \o SubSeq(repl, 2, Len(repl) - 1)
             \o <<repl[Len(repl)] \o rest[1]>>
             \o Tail(rest)

\* lines 248-253
_fix_generic_error(code, context) ==
  IF Contains(code, "try:")
    THEN ReplaceToken(code, "except Exception as e:",
                      << <<"except Exception as e:">>,
                         <<"    logger.error(f\"Error: {str(e)}\")">>,
                         <<"    raise">> >>)
    ELSE <<code>>

\* fix_methods, lines 78-94
fix_methods ==
  {"DatabaseError", "AuthenticationError", "ConnectionError", "TimeoutError",
   "ValidationError", "ResourceNotFoundError", "PermissionError", "RateLimitError",
   "MemoryError", "ConcurrencyError", "ConfigurationError", "SecurityError",
   "NetworkError", "FileSystemError", "SerializationError"}

\* the exception _generate_fix raises, or None
_generate_fix_raises(error_type, code) ==
  IF error_type = "FileSystemError" THEN _fix_filesystem_error_raises(code) ELSE None

\* fix_methods.get(error_type, self._fix_generic_error)(code, context)
_generate_fix(error_type, code, context) ==
  CASE error_type = "DatabaseError" -> _fix_database_error(code, context)
    [] error_type = "AuthenticationError" -> _fix_auth_error(code, context)
    [] error_type = "ConnectionError" -> _fix_connection_error(code, context)
    [] error_type = "TimeoutError" -> _fix_timeout_error(code, context)
    [] error_type = "ValidationError" -> _fix_validation_error(code, context)
    [] error_type = "ResourceNotFoundError" -> _fix_resource_not_found(code, context)
    [] error_type = "PermissionError" -> _fix_permission_error(code, context)
    [] error_type = "RateLimitError" -> _fix_rate_limit_error(code, context)
    [] error_type = "MemoryError" -> _fix_memory_error(code, context)
    [] error_type = "ConcurrencyError" -> _fix_concurrency_error(code, context)
    [] error_type = "ConfigurationError" -> _fix_configuration_error(code, context)
    [] error_type = "SecurityError" -> _fix_security_error(code, context)
    [] error_type = "NetworkError" -> _fix_network_error(code, context)
    [] error_type = "FileSystemError" -> _fix_filesystem_error(code, context)
    [] error_type = "SerializationError" -> _fix_serialization_error(code, context)
    [] OTHER -> _fix_generic_error(code, context)

-----------------------------------------------------------------------------
(* ChangeSet builder *)

Get(dict, key, default) == IF key \in DOMAIN dict THEN dict[key] ELSE default

\* the empty dict {}
EmptyDict == [key \in {} |-> key]

\* the CodeChange built for one flagged line (the body of the inner loop)
MakeChange(issue, fa, line_number) ==
  LET blame == Get(fa.blame_info, ToString(line_number), EmptyDict)
      original_code == Get(fa.context_lines, ToString(line_number), <<>>)
  IN  [file_path |-> fa.file_path,
       original_code |-> original_code,
       new_code |-> _generate_fix(issue.error_details.type, original_code,
                                  fa.context_lines),
       line_number |-> line_number,
       description |-> issue.llm_analysis.suggested_fixes[1],
       author |-> Get(blame, "author", "Unknown"),
       commit_hash |-> Get(blame, "commit", "Unknown")]

\* the exception _generate_fix raises for the j-th flagged line (line 58), or None
FixError(issue, fa, j) ==
  _generate_fix_raises(issue.error_details.type,
                       Get(fa.context_lines, ToString(fa.error_lines[j]), <<>>))

\* the exception the inner loop raises over the flagged lines of an entry, or
\* None: the lookups and the rule of the first line, then the rules of the others
LineError(issue, fa) ==
  IF "context_lines" \notin DOMAIN fa THEN "KeyError"
  ELSE IF "blame_info" \notin DOMAIN fa THEN "KeyError"
  ELSE IF "error_details" \notin DOMAIN issue THEN "KeyError"
  ELSE IF "type" \notin DOMAIN issue.error_details THEN "KeyError"
  ELSE IF FixError(issue, fa, 1) # None THEN FixError(issue, fa, 1)
  ELSE IF "llm_analysis" \notin DOMAIN issue THEN "KeyError"
  ELSE IF "suggested_fixes" \notin DOMAIN issue.llm_analysis THEN "KeyError"
  ELSE IF issue.llm_analysis.suggested_fixes = <<>> THEN "IndexError"
  ELSE IF \E j \in 1..Len(fa.error_lines) : FixError(issue, fa, j) # None
    THEN "IndexError"
  ELSE None

\* the exception raised while one entry of code_analysis is processed, or None
EntryError(issue, fa) ==
  IF "file_path" \notin DOMAIN fa THEN "KeyError"
  ELSE IF "error_lines" \notin DOMAIN fa THEN "KeyError"
  ELSE IF fa.error_lines = <<>> THEN None
  ELSE LineError(issue, fa)

\* the inner loop stopped after the first flagged line of the entry
EntryChangesFirstOnly(issue, fa) ==
  [j \in 1..(IF fa.error_lines = <<>> THEN 0 ELSE 1) |->
     MakeChange(issue, fa, fa.error_lines[j])]

\* the inner loop, lines 50-72: one change appended for each flagged line of
\* the entry, in the order of error_lines
EntryChanges(issue, fa) ==
  [j \in 1..Len(fa.error_lines) |-> MakeChange(issue, fa, fa.error_lines[j])]

RECURSIVE SuggestFrom(_, _, _)
\* the outer loop from entry i on, changes being the list built so far
SuggestFrom(issue, i, changes) ==
  LET ca == Get(issue, "code_analysis", <<>>) IN
  IF i > Len(ca) THEN [error |-> None, changes |-> changes]
  ELSE IF EntryError(issue, ca[i]) # None
    THEN [error |-> EntryError(issue, ca[i]), changes |-> <<>>]
  ELSE SuggestFrom(issue, i + 1, changes \o EntryChanges(issue, ca[i]))

suggest_code_changes(issue) == SuggestFrom(issue, 1, <<>>)


-----------------------------------------------------------------------------
(* The pipeline: CodeFixer.run and the calls it makes *)

\* run() with the pull request requested before the branch is pushed
RunNextPublishFirst(call) ==
  CASE call = "suggest_code_changes" -> "apply_code_changes"
    [] call = "apply_code_changes" -> "create_patch"
    [] call = "create_patch" -> "create_pull_request"
    [] call = "create_pull_request" -> "push_branch"
    [] call = "push_branch" -> "done"

\* the call run() makes after `call` has returned
RunNext(call) ==
  CASE call = "suggest_code_changes" -> "apply_code_changes"
    [] call = "apply_code_changes" -> "create_patch"
    [] call = "create_patch" -> "push_branch"
    [] call = "push_branch" -> "create_pull_request"
    [] call = "create_pull_request" -> "done"

\* f"fix/{error_id}", as its components between the slashes
BranchName(issue) == <<"fix", issue.error_id>>

\* os.getenv('REPO_PATH', '.'): the checkout is the process's working
\* directory (the default) or a directory elsewhere
RepoPaths == {".", "/srv/checkout"}

\* the directory a relative path given to open() is resolved in
Cwd == "."

\* f"patch_{branch_name.replace('/', '_')}.patch"
PatchPath(branch_name) == <<"patch_">> \o branch_name \o <<".patch">>

Init ==
  /\ issue_data \in IssueReports
  /\ pc = "suggest_code_changes"
  /\ k = 0
  /\ suggestions = <<>>
  /\ heads \in {{<<"main">>}, {<<"main">>, <<"fix", "E1">>}}
  /\ head = <<"main">>
  /\ tree = RepoFiles
  /\ index = RepoFiles
  /\ tip = [b \in heads |-> RepoFiles]
  /\ patch = <<>>
  /\ remote = {<<"main">>}
  /\ push_result = None
  /\ env \in [GITHUB_TOKEN : BOOLEAN, GITHUB_REPO : BOOLEAN, REPO_PATH : RepoPaths]
  /\ posts = 0
  /\ response = None
  /\ pr_url = None
  /\ printed = <<>>
  /\ error = None
  /\ stages = <<>>
  /\ writes = <<>>
  /\ rerun = FALSE

\* run(), line 332: build the suggestions; an exception ends the run
Suggest ==
  /\ pc = "suggest_code_changes"
  /\ LET r == suggest_code_changes(issue_data) IN
       IF r.error = None
         THEN /\ suggestions' = r.changes
              /\ pc' = RunNext(pc)
              /\ error' = error
         ELSE /\ suggestions' = suggestions
              /\ pc' = "failed"
              /\ error' = r.error
  /\ UNCHANGED <<rerun, issue_data, k, heads, head, tree, index, tip, patch, remote,
                 push_result, env, posts, response, pr_url, printed, stages, writes>>

\* apply_code_changes, line 260: the branch name needs error_id
BranchNameError ==
  /\ pc = "apply_code_changes" /\ k = 0
  /\ "error_id" \notin DOMAIN issue_data
  /\ pc' = "failed"
  /\ error' = "KeyError"
  /\ UNCHANGED <<rerun, issue_data, k, suggestions, heads, head, tree, index, tip, patch,
                 remote, push_result, env, posts, response, pr_url, printed, stages, writes>>

\* the test of line 262 finding no branch
InHeadsNever(branch_name, hs) == FALSE

\* branch_name in repo.heads, line 262
InHeads(branch_name, hs) == branch_name \in hs

\* the files with uncommitted changes, in the working tree or in the index
Dirty(files, staged, head_tree) ==
  {p \in DOMAIN files \cup DOMAIN staged \cup DOMAIN head_tree :
     \/ p \notin DOMAIN files \/ p \notin DOMAIN staged \/ p \notin DOMAIN head_tree
     \/ files[p] # head_tree[p] \/ staged[p] # head_tree[p]}

\* the files in which two commits differ
Differing(t1, t2) ==
  {p \in DOMAIN t1 \cup DOMAIN t2 :
     p \notin DOMAIN t1 \/ p \notin DOMAIN t2 \/ t1[p] # t2[p]}

\* git checkout <branch>: refused when a file with uncommitted changes differs
\* between the current commit and the branch; checking out the current branch
\* switches nothing
CheckoutRefused(current, target, files, staged, tips) ==
  /\ current # target
  /\ Dirty(files, staged, tips[current]) \cap Differing(tips[current], tips[target]) # {}

\* what a checkout that is not refused leaves of a tree: the target's
\* files, with the uncommitted changes carried over
Switched(files, head_tree, target_tree) ==
  [p \in DOMAIN files |->
     IF p \in DOMAIN head_tree /\ files[p] = head_tree[p] /\ p \in DOMAIN target_tree
       THEN target_tree[p] ELSE files[p]]

\* a refused checkout taken for a successful one
CheckoutSwallowRefusal(current, target, files, staged, tips) ==
  IF CheckoutRefused(current, target, files, staged, tips)
    THEN [error |-> None, head |-> current, tree |-> files, index |-> staged]
    ELSE [error |-> None, head |-> target,
          tree |-> Switched(files, tips[current], tips[target]),
          index |-> Switched(staged, tips[current], tips[target])]

\* repo.git.checkout(branch_name), line 263: the exception it raises or None,
\* and the branch checked out, the working tree and the index it leaves
Checkout(current, target, files, staged, tips) ==
  IF CheckoutRefused(current, target, files, staged, tips)
    THEN [error |-> "GitCommandError", head |-> current, tree |-> files,
          index |-> staged]
    ELSE [error |-> None, head |-> target,
          tree |-> Switched(files, tips[current], tips[target]),
          index |-> Switched(staged, tips[current], tips[target])]

\* apply_code_changes, lines 262-263: the branch exists and is checked out
CheckoutExisting ==
  /\ pc = "apply_code_changes" /\ k = 0
  /\ "error_id" \in DOMAIN issue_data
  /\ InHeads(BranchName(issue_data), heads)
  /\ stages' = Append(stages, "select_branch")
  /\ LET r == Checkout(head, BranchName(issue_data), tree, index, tip) IN
       /\ head' = r.head /\ tree' = r.tree /\ index' = r.index
       /\ IF r.error = None
            THEN k' = 1 /\ UNCHANGED <<pc, error>>
            ELSE pc' = "failed" /\ error' = r.error /\ k' = k
  /\ UNCHANGED <<rerun, issue_data, suggestions, heads, tip, patch, remote, push_result,
                 env, posts, response, pr_url, printed, writes>>

\* apply_code_changes, lines 264-265: git checkout -b creates the branch from
\* HEAD, keeping the working tree and the index; it fails when a branch of
\* that name exists
CheckoutNew ==
  /\ pc = "apply_code_changes" /\ k = 0
  /\ "error_id" \in DOMAIN issue_data
  /\ ~InHeads(BranchName(issue_data), heads)
  /\ stages' = Append(stages, "select_branch")
  /\ IF BranchName(issue_data) \notin heads
       THEN /\ heads' = heads \cup {BranchName(issue_data)}
            /\ tip' = (BranchName(issue_data) :> tip[head]) @@ tip
            /\ head' = BranchName(issue_data)
            /\ k' = 1
            /\ UNCHANGED <<pc, error>>
       ELSE /\ pc' = "failed"
            /\ error' = "GitCommandError"
            /\ UNCHANGED <<heads, tip, head, k>>
  /\ UNCHANGED <<rerun, issue_data, suggestions, tree, index, patch, remote,
                 push_result, env, posts, response, pr_url, printed, writes>>

\* open(file_path, 'r') succeeds
FileExists(files, path) == path \in DOMAIN files

\* the test of line 273 without its upper bound
InRangeNoUpperBound(idx, lines) == 0 <= idx

\* the test of line 273
InRange(idx, lines) == 0 <= idx /\ idx < Len(lines)

\* lines[idx] = new_code + '\n' followed by writelines: the lines of the file
\* afterwards (idx is 0-based)
ReplaceLine(lines, idx, new_code) ==
  SubSeq(lines, 1, idx) \o new_code \o SubSeq(lines, idx + 2, Len(lines))

\* lines 269-276: the content of the file after the change has been processed
Rewritten(lines, change) ==
  IF InRange(change.line_number - 1, lines)
    THEN ReplaceLine(lines, change.line_number - 1, change.new_code)
    ELSE lines

\* the loop body with a missing file skipped instead of raising
ProcessChangeSkipMissing(files, staged, change) ==
  IF FileExists(files, change.file_path)
    THEN [error |-> None,
          in_range |-> InRange(change.line_number - 1, files[change.file_path]),
          tree |-> [files EXCEPT ![change.file_path] = Rewritten(@, change)],
          index |-> [staged EXCEPT ![change.file_path] =
                        Rewritten(files[change.file_path], change)]]
    ELSE [error |-> None, in_range |-> FALSE, tree |-> files, index |-> staged]

\* lines 268-277 for one change: the exception raised, or the outcome of the
\* test of line 273 and the working tree and the index once the file has been
\* rewritten and added
ProcessChange(files, staged, change) ==
  IF FileExists(files, change.file_path)
    THEN [error |-> None,
          in_range |-> InRange(change.line_number - 1, files[change.file_path]),
          tree |-> [files EXCEPT ![change.file_path] = Rewritten(@, change)],
          index |-> [staged EXCEPT ![change.file_path] =
                        Rewritten(files[change.file_path], change)]]
    ELSE [error |-> "FileNotFoundError", in_range |-> FALSE,
          tree |-> files, index |-> staged]

\* apply_code_changes, lines 267-277: one iteration of the loop over changes
ApplyChange ==
  /\ pc = "apply_code_changes" /\ k \in 1..Len(suggestions)
  /\ LET change == suggestions[k]
         r == ProcessChange(tree, index, change)
     IN  IF r.error = None
           THEN /\ tree' = r.tree
                /\ index' = r.index
                /\ writes' = Append(writes,
                     [file_path |-> change.file_path,
                      line_number |-> change.line_number,
                      in_range |-> r.in_range])
                /\ stages' = Append(stages, "add")
                /\ k' = k + 1
                /\ UNCHANGED <<pc, error>>
           ELSE /\ pc' = "failed"
                /\ error' = r.error
                /\ UNCHANGED <<tree, index, writes, stages, k>>
  /\ UNCHANGED <<rerun, issue_data, suggestions, heads, head, tip, patch, remote,
                 push_result, env, posts, response, pr_url, printed>>

\* a commit that is made whatever the changeset and the index hold
CommitOutcomeAllowEmpty(changes, staged, head_tree) == "ok"

\* lines 279-280: changes[0].description, then git commit; git refuses a
\* commit when the index equals the tree of HEAD
CommitOutcome(changes, staged, head_tree) ==
  IF changes = <<>> THEN "IndexError"
  ELSE IF staged = head_tree THEN "GitCommandError"
  ELSE "ok"

\* apply_code_changes, lines 278-281: commit and return the branch name
Commit ==
  /\ pc = "apply_code_changes" /\ k = Len(suggestions) + 1
  /\ LET outcome == CommitOutcome(suggestions, index, tip[head]) IN
       /\ stages' = IF outcome = "IndexError" THEN stages
                    ELSE Append(stages, "commit")
       /\ IF outcome = "ok"
            THEN /\ tip' = [tip EXCEPT ![head] = index]
                 /\ pc' = RunNext(pc)
                 /\ error' = error
            ELSE /\ tip' = tip
                 /\ pc' = "failed"
                 /\ error' = outcome
  /\ UNCHANGED <<rerun, issue_data, k, suggestions, heads, head, tree, index, patch,
                 remote, push_result, env, posts, response, pr_url, printed, writes>>

\* git diff main...branch: the paths whose content differs from main
Diff(base, branch_tree) ==
  {p \in DOMAIN branch_tree : p \notin DOMAIN base \/ base[p] # branch_tree[p]}

\* create_patch and the print of run(), lines 347-348
CreatePatch ==
  /\ pc = "create_patch"
  /\ stages' = Append(stages, "diff_against")
  /\ patch' = <<[dir |-> Cwd,
                 path |-> PatchPath(BranchName(issue_data)),
                 diff |-> Diff(tip[<<"main">>], tip[BranchName(issue_data)])]>>
  /\ printed' = Append(printed, <<"Patch file created">> \o
                                  PatchPath(BranchName(issue_data)))
  /\ pc' = RunNext(pc)
  /\ UNCHANGED <<rerun, issue_data, k, suggestions, heads, head, tree, index, tip, remote,
                 push_result, env, posts, response, pr_url, error, writes>>

\* what origin.push can report: the branch was updated; the remote rejected
\* the head (reported in the returned list, which line 327 drops); git failed
\* before reporting on any head (an exception)
PushOutcomes == {"ok", "rejected", "error"}

\* whether push_branch returns normally for this outcome of origin.push
PushReturns(outcome) == outcome # "error"

\* push_branch, lines 322-327
PushBranch ==
  /\ pc = "push_branch"
  /\ stages' = Append(stages, "push")
  /\ \E outcome \in PushOutcomes :
       /\ push_result' = outcome
       /\ remote' = IF outcome = "ok" THEN remote \cup {BranchName(issue_data)}
                    ELSE remote
       /\ IF PushReturns(outcome)
            THEN pc' = RunNext(pc) /\ error' = error
            ELSE pc' = "failed" /\ error' = "GitCommandError"
  /\ UNCHANGED <<rerun, issue_data, k, suggestions, heads, head, tree, index, tip, patch,
                 env, posts, response, pr_url, printed, writes>>

\* the test of line 299 with `and` for `or`
CredentialsMissingBoth(e) == ~e.GITHUB_TOKEN /\ ~e.GITHUB_REPO

\* line 299: not github_token or not github_repo
CredentialsMissing(e) == ~e.GITHUB_TOKEN \/ ~e.GITHUB_REPO

\* what requests.post can do: answer 201 with the url, answer 201 without an
\* html_url, answer another status, or raise
Responses == {"201", "201 no html_url", "422", "ConnectionError"}

\* lines 314-320: the value returned for a response
PrResult(resp) == IF resp = "201" THEN "https://github.com/o/r/pull/1" ELSE None

\* create_pull_request and the print of run(), lines 350-354
CreatePullRequest ==
  /\ pc = "create_pull_request"
  /\ stages' = Append(stages, "open_request")
  /\ IF CredentialsMissing(env)
       THEN /\ posts' = posts
            /\ response' = response
            /\ pr_url' = None
            /\ printed' = Append(printed, <<"Pull request could not be created">>)
            /\ pc' = RunNext(pc)
            /\ error' = error
       ELSE /\ posts' = posts + 1
            /\ \E resp \in Responses :
                 /\ response' = resp
                 /\ IF resp = "ConnectionError"
                      THEN /\ pr_url' = pr_url
                           /\ printed' = printed
                           /\ pc' = "failed"
                           /\ error' = "ConnectionError"
                      ELSE /\ pr_url' = PrResult(resp)
                           /\ printed' = Append(printed,
                                 IF PrResult(resp) # None
                                   THEN <<"Pull request created">>
                                   ELSE <<"Pull request could not be created">>)
                           /\ pc' = RunNext(pc)
                           /\ error' = error
  /\ UNCHANGED <<rerun, issue_data, k, suggestions, heads, head, tree, index, tip, patch,
                 remote, push_result, env, writes>>

Next ==
  \/ Suggest
  \/ BranchNameError
  \/ CheckoutExisting
  \/ CheckoutNew
  \/ ApplyChange
  \/ Commit
  \/ CreatePatch
  \/ PushBranch
  \/ CreatePullRequest

Spec == Init /\ [][Next]_vars

\* a second run of the program on the same report and the same checkout:
\* CodeFixer(sys.argv[1]).run() once more, after the first run has ended
Rerun ==
  /\ pc \in {"done", "failed"} /\ ~rerun
  /\ rerun' = TRUE
  /\ pc' = "suggest_code_changes"
  /\ k' = 0
  /\ suggestions' = <<>>
  /\ push_result' = None
  /\ posts' = 0
  /\ response' = None
  /\ pr_url' = None
  /\ printed' = <<>>
  /\ error' = None
  /\ stages' = <<>>
  /\ writes' = <<>>
  /\ UNCHANGED <<issue_data, heads, head, tree, index, tip, patch, remote, env>>

NextRerun == Next \/ Rerun

\* two runs in a row
SpecRerun == Init /\ [][NextRerun]_vars

\* a.py with an uncommitted local change
LocalFiles == ("a.py" :> << <<"conn = ", "connect()">>, <<"return conn", "  # wip">> >>)

\* a.py as an earlier fix committed it on the fix branch
EarlierFix ==
  ("a.py" :> << <<"@retry(max_attempts=3, delay=1)">>, <<"conn = ", "connect()">>,
                <<"return conn">> >>)

\* the state after construction in a checkout of main that has uncommitted
\* changes, or whose fix branch has a commit of its own, or both
InitDirty ==
  /\ issue_data \in IssueReports
  /\ pc = "suggest_code_changes"
  /\ k = 0
  /\ suggestions = <<>>
  /\ heads \in {{<<"main">>}, {<<"main">>, <<"fix", "E1">>}}
  /\ head = <<"main">>
  /\ tree \in {RepoFiles, LocalFiles}
  /\ index = RepoFiles
  /\ tip \in {[b \in heads |-> IF b = <<"main">> THEN RepoFiles ELSE t] :
               t \in {RepoFiles, EarlierFix}}
  /\ tree # RepoFiles \/ tip # [b \in heads |-> RepoFiles]
  /\ patch = <<>>
  /\ remote = {<<"main">>}
  /\ push_result = None
  /\ env \in [GITHUB_TOKEN : BOOLEAN, GITHUB_REPO : BOOLEAN, REPO_PATH : RepoPaths]
  /\ posts = 0
  /\ response = None
  /\ pr_url = None
  /\ printed = <<>>
  /\ error = None
  /\ stages = <<>>
  /\ writes = <<>>
  /\ rerun = FALSE

SpecDirty == InitDirty /\ [][Next]_vars

-----------------------------------------------------------------------------
(* Properties of the pipeline *)

Occurs(log, e) == \E i \in 1..Len(log) : log[i] = e

IsPrefix(a, b) == Len(a) <= Len(b) /\ a = SubSeq(b, 1, Len(a))

StageOrder == <<"select_branch", "commit", "diff_against", "push", "open_request">>

\* the log without the per-file staging calls
Calls(log) == SelectSeq(log, LAMBDA e : e # "add")

\* C1: the version-control and publish calls of a run are made at most once
\* each, in the order select_branch, commit, diff_against, push, open_request,
\* and files are staged only after the branch is selected and before the commit.
C1_StagesInOrder ==
  /\ IsPrefix(Calls(stages), StageOrder)
  /\ \A i \in 1..Len(stages) :
       stages[i] = "add" =>
         /\ i > 1 /\ stages[1] = "select_branch"
         /\ \A j \in 1..(i - 1) : stages[j] \in {"select_branch", "add"}

C1_Witness ==
  pc = "done" /\ Calls(stages) = StageOrder /\ Occurs(stages, "add")

C3_DescendingOrder ==
  \A i, j \in 1..Len(writes) :
    (i < j /\ writes[i].file_path = writes[j].file_path) =>
      writes[i].line_number >= writes[j].line_number

\* the changes of the changeset that flag line n of path
Targeting(changes, path, n) ==
  {c \in 1..Len(changes) : changes[c].file_path = path /\ changes[c].line_number = n}

RECURSIVE Expected(_, _, _, _)
\* the file from line n on, every flagged line of the original replaced by its
\* replacement text and every other line kept
Expected(original, changes, path, n) ==
  IF n > Len(original) THEN <<>>
  ELSE (IF Targeting(changes, path, n) = {} THEN <<original[n]>>
        ELSE changes[CHOOSE c \in Targeting(changes, path, n) : TRUE].new_code)
       \o Expected(original, changes, path, n + 1)

\* C4: once all changes are applied (each flagging a line of its own that the
\* original file has), every line no change targets is kept in place and every
\* targeted line is replaced by exactly its replacement text.
C4_LinesPreserved ==
  (/\ k = Len(suggestions) + 1 /\ k > 1
   /\ \A c \in 1..Len(suggestions) :
        /\ suggestions[c].file_path \in DOMAIN RepoFiles
        /\ suggestions[c].line_number <= Len(RepoFiles[suggestions[c].file_path])
        /\ Cardinality(Targeting(suggestions, suggestions[c].file_path,
                                 suggestions[c].line_number)) = 1) =>
    \A path \in DOMAIN RepoFiles :
      tree[path] = Expected(RepoFiles[path], suggestions, path, 1)

RECURSIVE ApplyAll(_, _, _)
\* the working tree after the first n changes have been written
ApplyAll(files, changes, n) ==
  IF n = 0 THEN files
  ELSE LET before == ApplyAll(files, changes, n - 1)
       IN  [before EXCEPT ![changes[n].file_path] = Rewritten(@, changes[n])]

\* C5: a change that targets a file missing from the repository ends apply
\* with a file-not-found error; what earlier changes wrote stays written; no
\* commit, patch, push or pull request follows.
C5_MissingFileHalts ==
  \A j \in 1..Len(suggestions) :
    suggestions[j].file_path \notin DOMAIN RepoFiles =>
      /\ k <= j
      /\ (k = j /\ pc # "apply_code_changes") =>
            /\ pc = "failed" /\ error = "FileNotFoundError"
            /\ tree = ApplyAll(RepoFiles, suggestions, j - 1)
      /\ ~Occurs(stages, "commit")
      /\ \A b \in heads : tip[b] = RepoFiles
      /\ patch = <<>> /\ push_result = None /\ remote = {<<"main">>}
      /\ posts = 0 /\ ~Occurs(stages, "open_request")

C5_Witness ==
  /\ pc = "failed" /\ error = "FileNotFoundError"
  /\ tree # RepoFiles /\ index # RepoFiles

\* C6: a rejected push aborts the run: no pull request is requested and the
\* push is not repeated.
C6_RejectedPushFatal ==
  push_result \in {"rejected", "error"} =>
    /\ pc = "failed"
    /\ ~Occurs(stages, "open_request")
    /\ Len(SelectSeq(stages, LAMBDA e : e = "push")) = 1

C8_OpenRequestNeverRaises ==
  (Occurs(stages, "open_request") /\ push_result = "ok") =>
    /\ pc = "done" /\ error = None
    /\ (pr_url # None => response = "201")

\* a report with a missing or malformed field
Malformed(issue) ==
  \/ "error_id" \notin DOMAIN issue
  \/ "type" \notin DOMAIN issue.error_details
  \/ "code_analysis" \notin DOMAIN issue
  \/ "suggested_fixes" \notin DOMAIN issue.llm_analysis
  \/ issue.llm_analysis.suggested_fixes = <<>>
  \/ /\ "code_analysis" \in DOMAIN issue
     /\ \E i \in 1..Len(issue.code_analysis) :
          DOMAIN issue.code_analysis[i] #
            {"file_path", "error_lines", "context_lines", "blame_info"}

\* C9: a run on a malformed report fails before a branch is created or
\* checked out and before a file is written or staged.
C9_InputErrorsAbortEarly ==
  Malformed(issue_data) =>
    /\ pc # "done"
    /\ ~Occurs(stages, "select_branch")
    /\ head = <<"main">> /\ tip = [b \in heads |-> RepoFiles]
    /\ writes = <<>> /\ tree = RepoFiles /\ index = RepoFiles

\* C10: with an empty changeset the commit step ends in an error, no commit
\* is created, and no diff, push or pull request follows.
C10_EmptyChangesetFails ==
  (suggestions = <<>> /\ k >= 1 /\ pc # "apply_code_changes") =>
    /\ pc = "failed" /\ error # None
    /\ ~Occurs(stages, "commit")
    /\ \A b \in heads : tip[b] = RepoFiles
    /\ patch = <<>> /\ push_result = None /\ posts = 0
    /\ ~Occurs(stages, "diff_against") /\ ~Occurs(stages, "push")
    /\ ~Occurs(stages, "open_request")

C10_Witness ==
  /\ suggestions = <<>> /\ k = 1 /\ pc = "failed"
  /\ <<"fix", "E1">> \in heads /\ head = <<"fix", "E1">>

-----------------------------------------------------------------------------
(* The rule engine on its own: one flagged line, every category, a range of
   texts *)

\* the texts given to the rules
FixTexts ==
  {<<>>,
   <<"x = 1">>,
   <<"conn = ", "connect()">>,
   <<"rows = ", "db.query(", "sql", ")">>,
   <<"rows = ", "db.query(", "sql">>,
   <<"if ", "len(", "token", ") < 32", ":">>,
   <<"token", " = ", "request", ".headers", ".", "get(", "'", "Authorization", "'", ")">>,
   <<"if not", " data:">>,
   <<"v = ", "config", ".", "get(", "key", ")">>,
   <<"v = ", "os.environ", ".", "get(", "key", ")">>,
   <<"check_permission", "(", "user", ")">>,
   <<"r = ", "request", "s", ".", "get(", "url", ")">>,
   <<"xs = ", "list(", "rows", ")">>,
   <<"d = ", "dict(", ")">>,
   <<"for", " x ", "in", " xs:">>,
   <<"global", " counter">>,
   <<"shared_resource", " += 1">>,
   <<"password", " = form">>,
   <<"import ", "socket">>,
   <<"f = ", "open(", "path", ")">>,
   <<"f = ", "open(", "path">>,
   <<"if ", "os.path", ".", "exists(", "p", ")", ":">>,
   <<"d = ", "os.path", ".", "join", "(", "dirname", "(", "p", ")", ")">>,
   <<"import ", "os.path">>,
   <<"sep = ", "os.path", ".", "sep">>,
   <<"s = ", "json.dumps(", "obj", ")">>,
   <<"s = ", "pickle.dumps(", "obj", ")">>,
   <<"try:">>,
   <<"try:", " f() ", "except Exception as e:", " pass">>,
   <<"timeout=", "None">>}
  \cup {<<"call", "(", "timeout=", ToString(n), ")">> : n \in 0..MaxTimeout}
  \cup {<<"timeout=", ToString(n), ", ", "connect_", "timeout=", ToString(MaxTimeout - n)>> :
          n \in 0..MaxTimeout}

\* the categories given to the rules: the registered ones and one that is not
FixTypes == fix_methods \cup {"KeyError"}

\* a report that flags line 1 of a.py, whose text is code
FixReport(error_type, code) ==
  [FullReport(<<[Entry("a.py", <<1>>) EXCEPT !.context_lines = ("1" :> code)]>>)
     EXCEPT !.error_details = [type |-> error_type]]

InitFix ==
  /\ issue_data \in {FixReport(t, code) : t \in FixTypes, code \in FixTexts}
  /\ pc = "suggest_code_changes"
  /\ k = 0
  /\ suggestions = <<>>
  /\ heads = {<<"main">>}
  /\ head = <<"main">>
  /\ tree = RepoFiles
  /\ index = RepoFiles
  /\ tip = [b \in heads |-> RepoFiles]
  /\ patch = <<>>
  /\ remote = {<<"main">>}
  /\ push_result = None
  /\ env = [GITHUB_TOKEN |-> TRUE, GITHUB_REPO |-> TRUE, REPO_PATH |-> "."]
  /\ posts = 0
  /\ response = None
  /\ pr_url = None
  /\ printed = <<>>
  /\ error = None
  /\ stages = <<>>
  /\ writes = <<>>
  /\ rerun = FALSE

NextFix == Suggest

SpecFix == InitFix /\ [][NextFix]_vars

\* the category and the text of the report, and the change built from them
FixType == issue_data.error_details.type
FixText == issue_data.code_analysis[1].context_lines["1"]
Fixed == pc = "apply_code_changes" /\ Len(suggestions) = 1

\* C11: for every category, registered or not, and every text, generate_fix
\* returns a replacement text and raises no exception: building the change of
\* the flagged line never fails.
C11_GenerateFixNeverFails ==
  pc # "suggest_code_changes" => (Fixed /\ error = None)

\* whether the text has one of the patterns the rule selected for the
\* category tests for
PatternFound(error_type, code) ==
  CASE error_type = "DatabaseError" ->
         \/ \E i \in 1..Len(code) : Timeout5At(code, i)
         \/ Contains(code, "db.query(") \/ Contains(code, "connect()")
    [] error_type = "AuthenticationError" ->
         ContainsText(code, <<"len(", "token", ") < 32">>) \/ Contains(code, "Authorization")
    [] error_type = "ConnectionError" -> Contains(code, "connect()")
    [] error_type = "TimeoutError" -> Contains(code, "timeout=")
    [] error_type = "ValidationError" -> Contains(code, "if not")
    [] error_type = "ResourceNotFoundError" -> Contains(code, "get(")
    [] error_type = "PermissionError" -> Contains(code, "check_permission")
    [] error_type = "RateLimitError" -> Contains(code, "request")
    [] error_type = "MemoryError" ->
         \/ Contains(code, "list(") \/ Contains(code, "dict(")
         \/ (Contains(code, "for") /\ Contains(code, "in"))
    [] error_type = "ConcurrencyError" ->
         Contains(code, "global") \/ Contains(code, "shared_resource")
    [] error_type = "ConfigurationError" ->
         \/ ContainsText(code, <<"config", ".", "get(">>)
         \/ ContainsText(code, <<"os.environ", ".", "get(">>)
    [] error_type = "SecurityError" -> Contains(code, "password") \/ Contains(code, "token")
    [] error_type = "NetworkError" ->
         ContainsText(code, <<"request", "s", ".", "get(">>) \/ Contains(code, "socket")
    [] error_type = "FileSystemError" -> Contains(code, "open(") \/ Contains(code, "os.path")
    [] error_type = "SerializationError" ->
         Contains(code, "json.dumps(") \/ Contains(code, "pickle.dumps(")
    [] OTHER -> Contains(code, "try:")

\* C12: when the text has none of the patterns of the rule selected for the
\* category (the generic rule for an unregistered category), generate_fix
\* returns the text unchanged: the change is built, and its new text is the
\* one line of its original text.
C12_UnmatchedUnchanged ==
  (pc # "suggest_code_changes" /\ ~PatternFound(FixType, FixText)) =>
    /\ Fixed
    /\ suggestions[1].original_code = FixText
    /\ suggestions[1].new_code = <<FixText>>

\* the rate-limit rule or the generic rule left unchanged a text that has a
\* pattern of another rule
C12_Witness ==
  /\ Fixed /\ FixType \in {"RateLimitError", "KeyError"}
  /\ ~PatternFound(FixType, FixText) /\ PatternFound("DatabaseError", FixText)
  /\ suggestions[1].new_code = <<FixText>>

\* the literals N that follow the keyword timeout= in a line
TimeoutsOf(line) ==
  {Int_(line[i]) : i \in {j \in 2..Len(line) : line[j - 1] = "timeout=" /\ IsNumber(line[j])}}

\* whether the new text has timeout=n
HasTimeout(lines, n) ==
  \E l \in 1..Len(lines) : \E i \in 2..Len(lines[l]) :
    lines[l][i - 1] = "timeout=" /\ lines[l][i] = ToString(n)

\* C13 as stated: for the categories whose rule rewrites a numeric timeout
\* (DatabaseError and TimeoutError) and every text with timeout=N, the new
\* text has timeout=2N.
C13_TimeoutRulesDouble ==
  (Fixed /\ FixType \in {"DatabaseError", "TimeoutError"}) =>
    \A n \in TimeoutsOf(FixText) : HasTimeout(suggestions[1].new_code, 2 * n)

\* C13, amended: for the category TimeoutError and every text with timeout=N,
\* the new text has timeout=2N.
C13_TimeoutErrorDoubles ==
  (pc # "suggest_code_changes" /\ FixType = "TimeoutError") =>
    /\ Fixed
    /\ \A n \in TimeoutsOf(FixText) : HasTimeout(suggestions[1].new_code, 2 * n)

\* a text with two different positive timeouts went through the timeout rule
C13_Witness ==
  /\ Fixed /\ FixType = "TimeoutError"
  /\ Cardinality(TimeoutsOf(FixText) \ {0}) = 2
  /\ \A n \in TimeoutsOf(FixText) : HasTimeout(suggestions[1].new_code, 2 * n)

-----------------------------------------------------------------------------
(* The changeset *)

RECURSIVE LocationsFrom(_, _)
\* the (file_path, line_number) pairs of the entries of ca from entry i on
LocationsFrom(ca, i) ==
  IF i > Len(ca) THEN <<>>
  ELSE [j \in 1..Len(ca[i].error_lines) |->
          [file_path |-> ca[i].file_path, line_number |-> ca[i].error_lines[j],
           entry |-> i]]
         \o LocationsFrom(ca, i + 1)

\* the code locations of the report, in input order
code_locations == LocationsFrom(Get(issue_data, "code_analysis", <<>>), 1)

\* C14: when the changeset is built, it has exactly one change for each
\* (file_path, line_number) of the report's code locations, in input order,
\* each with a replacement text; its length is the number of code locations.
C14_OneChangePerLocation ==
  (pc # "suggest_code_changes" /\ suggest_code_changes(issue_data).error = None) =>
    /\ Len(suggestions) = Len(code_locations)
    /\ \A i \in 1..Len(suggestions) :
         /\ suggestions[i].file_path = code_locations[i].file_path
         /\ suggestions[i].line_number = code_locations[i].line_number
         /\ Len(suggestions[i].new_code) >= 1

\* a changeset was built for two locations of two files, lines descending
C14_Witness ==
  /\ pc = "apply_code_changes" /\ Len(suggestions) = 2
  /\ suggestions[1].file_path # suggestions[2].file_path
  /\ suggestions[1].line_number > suggestions[2].line_number

\* a report whose fields are all present, except that an entry may come
\* without its blame mapping
BlameOptional(issue) ==
  /\ {"error_details", "code_analysis", "llm_analysis"} \subseteq DOMAIN issue
  /\ "type" \in DOMAIN issue.error_details
  /\ "suggested_fixes" \in DOMAIN issue.llm_analysis
  /\ issue.llm_analysis.suggested_fixes # <<>>
  /\ \A i \in 1..Len(issue.code_analysis) :
       {"file_path", "error_lines", "context_lines"} \subseteq DOMAIN issue.code_analysis[i]

\* whether the report has blame information for a location
HasBlame(issue, loc) ==
  /\ "blame_info" \in DOMAIN issue.code_analysis[loc.entry]
  /\ ToString(loc.line_number) \in DOMAIN issue.code_analysis[loc.entry].blame_info

\* whether the report has the text of the line of a location
HasContext(issue, loc) ==
  ToString(loc.line_number) \in DOMAIN issue.code_analysis[loc.entry].context_lines

\* C15: building the changeset does not fail when a line has no entry in
\* context or a location has no blame information (the blame mapping being
\* optional): the change of such a line has the empty original text, the
\* change of such a location has author "Unknown" and revision "Unknown".
C15_MissingContextAndBlameTolerated ==
  (pc # "suggest_code_changes" /\ BlameOptional(issue_data)) =>
    /\ Len(suggestions) = Len(code_locations)
    /\ \A i \in 1..Len(suggestions) :
         /\ ~HasContext(issue_data, code_locations[i]) =>
              suggestions[i].original_code = <<>>
         /\ ~HasBlame(issue_data, code_locations[i]) =>
              (suggestions[i].author = "Unknown" /\ suggestions[i].commit_hash = "Unknown")

-----------------------------------------------------------------------------
(* The branch and the working tree *)

\* the step is a call of select_branch
SelectStep ==
  /\ pc = "apply_code_changes" /\ k = 0
  /\ stages' = Append(stages, "select_branch")

\* C16: the first call of select_branch with a name that is not a branch
\* creates the branch from the current HEAD; a second call with the same
\* name, in a second run, checks the existing branch out without an error and
\* without recreating it, and leaves the set of branches unchanged.
C16_SelectBranchIdempotent ==
  [][SelectStep =>
       /\ (~rerun /\ BranchName(issue_data) \notin heads) =>
            /\ error' = None /\ k' = 1
            /\ heads' = heads \cup {BranchName(issue_data)}
            /\ head' = BranchName(issue_data)
            /\ tip' = (BranchName(issue_data) :> tip[head]) @@ tip
       /\ rerun =>
            /\ BranchName(issue_data) \in heads
            /\ error' = None /\ k' = 1 /\ pc' = pc
            /\ heads' = heads /\ tip' = tip
            /\ head' = BranchName(issue_data)]_vars

\* the second run selected the branch and has reached the commit
C16_Witness ==
  /\ rerun /\ Occurs(stages, "select_branch") /\ Occurs(stages, "commit")
  /\ head = BranchName(issue_data) /\ error = None

\* the untracked files of the checkout: the files written into its directory
\* that no commit and no index has
Untracked(written, e) ==
  {written[i].path : i \in {j \in 1..Len(written) : written[j].dir = e.REPO_PATH}}

\* C17: diff_against leaves the branches, the commits, the index and the
\* files of the checkout, its untracked files included, exactly as they were.
C17_DiffLeavesRepositoryAlone ==
  [][(pc = "create_patch" /\ stages' = Append(stages, "diff_against")) =>
       /\ heads' = heads /\ head' = head /\ tip' = tip
       /\ index' = index /\ tree' = tree
       /\ Untracked(patch', env') = Untracked(patch, env)]_vars

\* C18 as stated: the files are rewritten before the branch is selected, so
\* that when select_branch is called every change has been written.
C18_WritesBeforeBranch ==
  [][SelectStep => Len(writes) = Len(suggestions)]_vars

\* C18, amended: the branch is selected before the working tree is written:
\* every file is rewritten after select_branch has returned, on the fix
\* branch, and before the commit.
C18_BranchBeforeWrites ==
  [][writes' # writes =>
       /\ Occurs(stages, "select_branch") /\ ~Occurs(stages, "commit")
       /\ head = BranchName(issue_data) /\ head' = head]_vars

\* a run in a checkout with local changes wrote two files and ended
C18_Witness ==
  /\ pc = "done" /\ Len(writes) = 2 /\ tree # tip[<<"main">>]
  /\ tip[<<"main">>] = RepoFiles

\* select_branch has failed in this run
SelectFailed == pc = "failed" /\ Occurs(stages, "select_branch") /\ k = 0

\* C19: if selecting the branch fails, the run has rewritten and staged no
\* file, and no commit, patch, push or pull request follows; whenever a run
\* has written a file, the fix branch is the branch checked out.
C19_NoWriteOffBranch ==
  /\ SelectFailed =>
       /\ error = "GitCommandError"
       /\ writes = <<>> /\ stages = <<"select_branch">>
       /\ head = <<"main">> /\ index = RepoFiles /\ tree = LocalFiles
       /\ tip[<<"main">>] = RepoFiles
       /\ patch = <<>> /\ push_result = None /\ remote = {<<"main">>}
       /\ posts = 0 /\ pr_url = None
  /\ writes # <<>> => head = BranchName(issue_data)

\* the checkout of the fix branch was refused with changes to apply
C19_Witness ==
  /\ SelectFailed /\ suggestions # <<>> /\ tip[<<"fix", "E1">>] = EarlierFix

=============================================================================
